---- MODULE Spec2Model ----
(***************************************************************************)
(* Land area calculator: the geometry/measurement engine of                *)
(* client/src/lib/utils/area.ts (extractVerticesFromLines,                 *)
(* calculatePolygonArea, scaleAreaToRealWorld).                            *)
(*                                                                         *)
(* Numbers.  A JavaScript number is modelled by an exact rational in       *)
(* lowest terms, [num |-> Int, den |-> Nat \ {0}].  Pixel coordinates are  *)
(* whole numbers, on which the products and sums of the shoelace loop are  *)
(* exact in IEEE double arithmetic; declared lengths are decimals whose    *)
(* pairwise differences are never the tolerance 0.1 itself, so that every  *)
(* comparison of the code is decided as the exact arithmetic decides it.   *)
(* Math.sqrt is modelled on perfect squares only, where it is exact: the   *)
(* segments handed to scaleAreaToRealWorld have whole-number pixel         *)
(* lengths.                                                                *)
(***************************************************************************)
EXTENDS Integers, Sequences, FiniteSets, TLC

VARIABLES
    lines,      \* Line[]: the segment sequence handed to the engine
    vertices,   \* Point[]: the vertex sequence (an input, or extract's output)
    pixelArea,  \* number: the drawing-space area
    totalArea,  \* number: the real-world area
    scale,      \* number: the "1:scale" display ratio
    pc,         \* position of the caller in the pipeline
    defaultLength,  \* Home: the length given to a newly drawn line
    isDrawing,      \* Canvas: a line is being drawn
    currentLine,    \* Canvas: Partial<Line> | null, <<>> for null
    isDragging,     \* Canvas: an end point is being dragged
    dragPoint,      \* Canvas: {lineId, isStart} | null, <<>> for null
    landPlots,          \* MemStorage: Map<number, LandPlot>, a function on its keys
    landPlotCurrentId,  \* MemStorage: the id the next created plot gets
    request,            \* the request the server handled last, <<>> before the first
    response,           \* the response to it
    downloads           \* the files the browser was handed by the export handlers

canvasVars == <<defaultLength, isDrawing, currentLine, isDragging, dragPoint>>

serverVars == <<landPlots, landPlotCurrentId, request, response>>

vars == <<lines, vertices, pixelArea, totalArea, scale, pc, canvasVars,
          serverVars, downloads>>

----------------------------------------------------------------------------
(* Numbers *)

Abs(n) == IF n < 0 THEN -n ELSE n

RECURSIVE GCD(_, _)
GCD(a, b) == IF b = 0 THEN a ELSE GCD(b, a % b)

\* The number n/d (d > 0) in lowest terms.
Rat(n, d) ==
    LET g == GCD(Abs(n), d)
    IN  [num |-> n \div g, den |-> d \div g]

RInt(n) == [num |-> n, den |-> 1]

RAdd(a, b) == Rat(a.num * b.den + b.num * a.den, a.den * b.den)
RSub(a, b) == Rat(a.num * b.den - b.num * a.den, a.den * b.den)
RMul(a, b) == Rat(a.num * b.num, a.den * b.den)
\* a / b for b # 0 (every division of the code has a guarded denominator).
RDiv(a, b) ==
    IF b.num > 0 THEN Rat(a.num * b.den, a.den * b.num)
                 ELSE Rat(-(a.num * b.den), a.den * (-b.num))
RAbs(a) == [num |-> Abs(a.num), den |-> a.den]
RLess(a, b) == a.num * b.den < b.num * a.den

\* The largest r in lo..hi with r * r <= q.
RECURSIVE FloorSqrt(_, _, _)
FloorSqrt(q, lo, hi) ==
    IF lo >= hi THEN lo
    ELSE LET mid == (lo + hi + 1) \div 2
         IN  IF mid * mid <= q THEN FloorSqrt(q, mid, hi)
                               ELSE FloorSqrt(q, lo, mid - 1)

\* Math.sqrt on a perfect square (undefined elsewhere).
Sqrt(q) == CHOOSE r \in {FloorSqrt(q, 0, q)} : r * r = q

----------------------------------------------------------------------------
(* shared/schema.ts *)

Pt(px, py) == [x |-> px, y |-> py]

Line(i, s, e, len) == [id |-> i, startPoint |-> s, endPoint |-> e, length |-> len]

----------------------------------------------------------------------------
(* client/src/lib/utils/area.ts *)

calculateDistance(point1, point2) ==
    LET dx == point2.x - point1.x
        dy == point2.y - point1.y
    IN  Sqrt(dx * dx + dy * dy)

\* The loop of calculatePolygonArea from index i (0-based) with running sum area.
RECURSIVE ShoelaceLoop(_, _, _)
ShoelaceLoop(vs, i, area) ==
    IF i >= Len(vs) THEN area
    ELSE LET j == (i + 1) % Len(vs)
         IN  ShoelaceLoop(vs, i + 1,
                 area + vs[i + 1].x * vs[j + 1].y - vs[j + 1].x * vs[i + 1].y)

\* Variant: the result is Math.abs(area), the division by 2 forgotten.
calculatePolygonArea_noHalf(vs) ==
    IF Len(vs) < 3 THEN RInt(0)
    ELSE RInt(Abs(ShoelaceLoop(vs, 0, 0)))

\* Variant: the result is area / 2, the absolute value forgotten.
calculatePolygonArea_noAbs(vs) ==
    IF Len(vs) < 3 THEN RInt(0)
    ELSE Rat(ShoelaceLoop(vs, 0, 0), 2)

\* Variant: the loop stops at the last vertex (i < vertices.length - 1), so the
\* edge from the last vertex back to the first is left out.
RECURSIVE OpenLoop(_, _, _)
OpenLoop(vs, i, area) ==
    IF i >= Len(vs) - 1 THEN area
    ELSE OpenLoop(vs, i + 1,
             area + vs[i + 1].x * vs[i + 2].y - vs[i + 2].x * vs[i + 1].y)

calculatePolygonArea_openChain(vs) ==
    IF Len(vs) < 3 THEN RInt(0)
    ELSE Rat(Abs(OpenLoop(vs, 0, 0)), 2)

\* Variant: the early return guards fewer than 2 vertices and the second cross
\* product is added instead of subtracted.
RECURSIVE PlusLoop(_, _, _)
PlusLoop(vs, i, area) ==
    IF i >= Len(vs) THEN area
    ELSE LET j == (i + 1) % Len(vs)
         IN  PlusLoop(vs, i + 1,
                 area + vs[i + 1].x * vs[j + 1].y + vs[j + 1].x * vs[i + 1].y)

calculatePolygonArea_lateGuard(vs) ==
    IF Len(vs) < 2 THEN RInt(0)
    ELSE Rat(Abs(PlusLoop(vs, 0, 0)), 2)

calculatePolygonArea(vs) ==
    IF Len(vs) < 3 THEN RInt(0)
    ELSE Rat(Abs(ShoelaceLoop(vs, 0, 0)), 2)

\* The rectangle test of scaleAreaToRealWorld on exactly four lines.
Tolerance == Rat(1, 10)

\* Variant: opposite sides must be equal, without a tolerance.
isRectangle_exact(ls) ==
    /\ ls[1].length = ls[3].length
    /\ ls[2].length = ls[4].length

\* Variant: a difference equal to the tolerance still counts as a rectangle.
isRectangle_inclusive(ls) ==
    /\ ~RLess(Tolerance, RAbs(RSub(ls[1].length, ls[3].length)))
    /\ ~RLess(Tolerance, RAbs(RSub(ls[2].length, ls[4].length)))

isRectangle(ls) ==
    LET lengthA == ls[1].length
        lengthB == ls[2].length
        lengthC == ls[3].length
        lengthD == ls[4].length
    IN  /\ RLess(RAbs(RSub(lengthA, lengthC)), Tolerance)
        /\ RLess(RAbs(RSub(lengthB, lengthD)), Tolerance)

\* The loop over the lines that collects length / pixelLength where pixelLength > 0.
RECURSIVE RatiosLoop(_, _, _)
RatiosLoop(ls, i, ratios) ==
    IF i > Len(ls) THEN ratios
    ELSE LET pixelLength == calculateDistance(ls[i].startPoint, ls[i].endPoint)
         IN  RatiosLoop(ls, i + 1,
                 IF pixelLength > 0
                 THEN Append(ratios, RDiv(ls[i].length, RInt(pixelLength)))
                 ELSE ratios)

pixelToMeterRatios(ls) == RatiosLoop(ls, 1, <<>>)

\* ratios.reduce((sum, ratio) => sum + ratio, 0)
RECURSIVE ReduceSum(_, _, _)
ReduceSum(ratios, i, sum) ==
    IF i > Len(ratios) THEN sum
    ELSE ReduceSum(ratios, i + 1, RAdd(sum, ratios[i]))

avgRatio(ratios) == RDiv(ReduceSum(ratios, 1, RInt(0)), RInt(Len(ratios)))

\* Variant: with no ratio the pixel area is returned as it came.
ratioProjection_emptyKeepsArea(pa, ls) ==
    LET ratios == pixelToMeterRatios(ls)
    IN  IF Len(ratios) = 0 THEN pa
        ELSE LET avg == avgRatio(ratios)
             IN  RMul(RMul(pa, avg), avg)

\* Variant: the mean divides by the number of lines, zero-length ones included.
ratioProjection_countAll(pa, ls) ==
    LET ratios == pixelToMeterRatios(ls)
    IN  IF Len(ratios) = 0 THEN RInt(0)
        ELSE LET avg == RDiv(ReduceSum(ratios, 1, RInt(0)), RInt(Len(ls)))
             IN  RMul(RMul(pa, avg), avg)

\* The general path: the pixel area scaled by the square of the mean ratio.
ratioProjection(pa, ls) ==
    LET ratios == pixelToMeterRatios(ls)
    IN  IF Len(ratios) = 0 THEN RInt(0)
        ELSE LET avg == avgRatio(ratios)
             IN  RMul(RMul(pa, avg), avg)

\* Variant: the early return guards fewer than 2 lines (lines.length < 2).
scaleAreaToRealWorld_twoLines(pa, ls, sc) ==
    IF Len(ls) < 2 THEN RInt(0)
    ELSE IF Len(ls) = 4 /\ isRectangle(ls)
         THEN RMul(ls[1].length, ls[2].length)
         ELSE ratioProjection(pa, ls)

\* Variant: the general path multiplies its result by the scale.
scaleAreaToRealWorld_timesScale(pa, ls, sc) ==
    IF Len(ls) < 3 THEN RInt(0)
    ELSE IF Len(ls) = 4 /\ isRectangle(ls)
         THEN RMul(ls[1].length, ls[2].length)
         ELSE RMul(ratioProjection(pa, ls), sc)

\* The scale parameter sc is accepted and never read.
scaleAreaToRealWorld(pa, ls, sc) ==
    IF Len(ls) < 3 THEN RInt(0)
    ELSE IF Len(ls) = 4 /\ isRectangle(ls)
         THEN RMul(ls[1].length, ls[2].length)
         ELSE ratioProjection(pa, ls)

\* Variant: the loop pushes line.startPoint instead of line.endPoint.
PushedVertices_startPoints(ls) ==
    <<ls[1].startPoint>> \o [i \in 1..Len(ls) |-> ls[i].startPoint]

\* The vertex sequence before the closure rule: the first start, then every end.
PushedVertices(ls) ==
    <<ls[1].startPoint>> \o [i \in 1..Len(ls) |-> ls[i].endPoint]

\* Variant: the closure test joins the coordinate comparisons with && instead of ||.
extractVerticesFromLines_bothDiffer(ls) ==
    IF Len(ls) = 0 THEN <<>>
    ELSE LET vs == PushedVertices(ls)
             firstPoint == vs[1]
             lastPoint == vs[Len(vs)]
         IN  IF /\ Len(ls) >= 3
                /\ (firstPoint.x # lastPoint.x /\ firstPoint.y # lastPoint.y)
             THEN Append(vs, firstPoint)
             ELSE vs

\* Variant: with three or more lines the first point is always pushed again.
extractVerticesFromLines_alwaysClose(ls) ==
    IF Len(ls) = 0 THEN <<>>
    ELSE LET vs == PushedVertices(ls)
         IN  IF Len(ls) >= 3 THEN Append(vs, vs[1]) ELSE vs

\* Variant: the closure rule is guarded by the vertex count (vertices.length >= 3)
\* instead of the line count.
extractVerticesFromLines_vertexCount(ls) ==
    IF Len(ls) = 0 THEN <<>>
    ELSE LET vs == PushedVertices(ls)
             firstPoint == vs[1]
             lastPoint == vs[Len(vs)]
         IN  IF /\ Len(vs) >= 3
                /\ (firstPoint.x # lastPoint.x \/ firstPoint.y # lastPoint.y)
             THEN Append(vs, firstPoint)
             ELSE vs

extractVerticesFromLines(ls) ==
    IF Len(ls) = 0 THEN <<>>
    ELSE LET vs == PushedVertices(ls)
             firstPoint == vs[1]
             lastPoint == vs[Len(vs)]
         IN  IF /\ Len(ls) >= 3
                /\ (firstPoint.x # lastPoint.x \/ firstPoint.y # lastPoint.y)
             THEN Append(vs, firstPoint)
             ELSE vs

----------------------------------------------------------------------------
(* Bounds and input sets *)

MaxVerts == 4
MaxLines == 4

\* Vertices handed directly to calculatePolygonArea.
AreaCoords == {0, 10, 20}
AreaPoints == {Pt(px, py) : px \in AreaCoords, py \in AreaCoords}

\* Endpoints of the segments handed to extractVerticesFromLines: the corners of
\* the 10 x 10 square.
ExtractCoords == {0, 10}
ExtractPoints == {Pt(px, py) : px \in ExtractCoords, py \in ExtractCoords}
\* Home.defaultLength, the length a drawn line gets.
DefaultLength == RInt(10)

\* Segments handed to scaleAreaToRealWorld: a zero-length segment and two sides
\* of the 200 x 100 pixel rectangle, each with a declared length in metres.
ScaleGeoms ==
    { <<Pt(0, 0), Pt(0, 0)>>,
      <<Pt(0, 0), Pt(200, 0)>>,
      <<Pt(200, 0), Pt(200, 100)>> }
Lengths == {Rat(497, 100), RInt(5), RInt(10), Rat(1005, 100)}
PixelAreas == {RInt(2500), RInt(20000)}
\* Declared lengths 0.1, 0.2 and 5: 0.2 - 0.1 is the tolerance itself.
ToleranceLengths == {Rat(1, 10), Rat(2, 10), RInt(5)}
Scales == {RInt(1), RInt(100)}

----------------------------------------------------------------------------
(* The callers of the engine.  A caller either holds a segment sequence     *)
(* (pc = "input") or hands a vertex sequence of its own to                  *)
(* calculatePolygonArea (pc = "vertices").                                  *)

\* new MemStorage() and a server that has handled no request
InitStorage ==
    /\ landPlots = <<>>
    /\ landPlotCurrentId = 1
    /\ request = <<>>
    /\ response = <<>>

\* Home.defaultLength and the state of Canvas after construction.
InitCanvas ==
    /\ InitStorage
    /\ downloads = 0
    /\ defaultLength = DefaultLength
    /\ isDrawing = FALSE
    /\ currentLine = <<>>
    /\ isDragging = FALSE
    /\ dragPoint = <<>>

InitLines ==
    /\ lines = <<>>
    /\ vertices = <<>>
    /\ pixelArea = RInt(0)
    /\ totalArea = RInt(0)
    /\ scale = RInt(1)
    /\ pc = "input"
    /\ InitCanvas

InitGeometry ==
    /\ lines = <<>>
    /\ vertices = <<>>
    /\ pixelArea = RInt(0)
    /\ totalArea = RInt(0)
    /\ scale = RInt(1)
    /\ pc \in {"input", "vertices"}
    /\ InitCanvas

\* The caller supplies one more vertex.
PushVertex(p) ==
    /\ pc = "vertices"
    /\ Len(vertices) < MaxVerts
    /\ vertices' = Append(vertices, p)
    /\ UNCHANGED <<lines, pixelArea, totalArea, scale, pc>>
    /\ UNCHANGED canvasVars
    /\ UNCHANGED <<serverVars, downloads>>

\* The caller supplies one more segment, numbered as Canvas numbers a new line.
PushLine(s, e, len) ==
    /\ pc = "input"
    /\ Len(lines) < MaxLines
    /\ lines' = Append(lines, Line(Len(lines) + 1, s, e, len))
    /\ UNCHANGED <<vertices, pixelArea, totalArea, scale, pc>>
    /\ UNCHANGED canvasVars
    /\ UNCHANGED <<serverVars, downloads>>

\* const vertices = extractVerticesFromLines(lines);
\* const pixelArea = calculatePolygonArea(vertices);
Measure ==
    /\ pc = "input"
    /\ vertices' = extractVerticesFromLines(lines)
    /\ pixelArea' = calculatePolygonArea(vertices')
    /\ pc' = "measured"
    /\ UNCHANGED <<lines, totalArea, scale>>
    /\ UNCHANGED canvasVars
    /\ UNCHANGED <<serverVars, downloads>>

\* calculatePolygonArea(vertices) on the caller's own vertex sequence
CallArea ==
    /\ pc = "vertices"
    /\ pixelArea' = calculatePolygonArea(vertices)
    /\ pc' = "area"
    /\ UNCHANGED <<lines, vertices, totalArea, scale>>
    /\ UNCHANGED canvasVars
    /\ UNCHANGED <<serverVars, downloads>>

\* scaleAreaToRealWorld(pa, lines, sc)
CallScale(pa, sc) ==
    /\ pc = "input"
    /\ pixelArea' = pa
    /\ scale' = sc
    /\ totalArea' = scaleAreaToRealWorld(pa, lines, sc)
    /\ pc' = "scaled"
    /\ UNCHANGED <<lines, vertices>>
    /\ UNCHANGED canvasVars
    /\ UNCHANGED <<serverVars, downloads>>

\* extractVerticesFromLines and calculatePolygonArea on every segment sequence
\* over ExtractPoints, and calculatePolygonArea on every vertex sequence over
\* AreaPoints.
NextGeometry ==
    \/ \E p \in AreaPoints : PushVertex(p)
    \/ \E s \in ExtractPoints, e \in ExtractPoints : PushLine(s, e, DefaultLength)
    \/ Measure
    \/ CallArea

SpecGeometry == InitGeometry /\ [][NextGeometry]_vars

\* scaleAreaToRealWorld on every pixel area of PixelAreas, every segment
\* sequence over ScaleGeoms x Lengths and every scale of Scales.
NextScale ==
    \/ \E g \in ScaleGeoms, len \in Lengths : PushLine(g[1], g[2], len)
    \/ \E pa \in PixelAreas, sc \in Scales : CallScale(pa, sc)

SpecScale == InitLines /\ [][NextScale]_vars

\* scaleAreaToRealWorld on segment sequences whose declared lengths differ by
\* nothing, by the tolerance exactly, or by more.
NextTolerance ==
    \/ \E g \in ScaleGeoms, len \in ToleranceLengths : PushLine(g[1], g[2], len)
    \/ \E pa \in PixelAreas, sc \in Scales : CallScale(pa, sc)

SpecTolerance == InitLines /\ [][NextTolerance]_vars

----------------------------------------------------------------------------
(* The application: Home holds lines, defaultLength and scale and derives   *)
(* totalArea; Canvas and MeasurementPanel change them through their event   *)
(* handlers.  One action is one handler run on one event.  A mouse position *)
(* p is the drawing-space point (clientX - left) / zoom, (clientY - top) /  *)
(* zoom the handler computes; a text input arrives as what parseFloat made  *)
(* of it.                                                                   *)

\* parseFloat of a text that is no number
NaN == [nan |-> TRUE]
isNaN(v) == "nan" \in DOMAIN v

\* a || b on numbers: b when a is 0
DateNow == 2000000000
IdOrNow(i) == IF i # 0 THEN i ELSE DateNow
LengthOr(len, other) == IF len.num # 0 THEN len ELSE other

\* Variant: two lines are enough (the area of the open chain is projected).
HomeTotalArea_twoLines(ls, sc) ==
    IF Len(ls) < 2 THEN RInt(0)
    ELSE LET vs == extractVerticesFromLines(ls)
             pa == calculatePolygonArea(vs)
         IN  IF Len(ls) = 4 /\ isRectangle(ls)
             THEN RMul(ls[1].length, ls[2].length)
             ELSE ratioProjection(pa, ls)

\* const totalArea = useMemo(..., [lines, scale]) in Home
HomeTotalArea(ls, sc) ==
    IF Len(ls) < 3 THEN RInt(0)
    ELSE LET vs == extractVerticesFromLines(ls)
             pa == calculatePolygonArea(vs)
         IN  scaleAreaToRealWorld(pa, ls, sc)

\* Variant: the memo depends on [scale] only.
Rerender_scaleOnly ==
    totalArea' = IF scale' = scale
                 THEN totalArea
                 ELSE HomeTotalArea(lines', scale')

\* The render after a handler: the memo is recomputed when lines or scale changed.
Rerender ==
    totalArea' = IF lines' = lines /\ scale' = scale
                 THEN totalArea
                 ELSE HomeTotalArea(lines', scale')

\* lines.findIndex(line => line.id === id), 0 when there is none
FindIndex(ls, id) ==
    IF \E i \in 1..Len(ls) : ls[i].id = id
    THEN CHOOSE i \in 1..Len(ls) : ls[i].id = id /\ \A j \in 1..(i - 1) : ls[j].id # id
    ELSE 0

\* lines.filter(line => line.id !== id)
RECURSIVE FilterOut(_, _)
FilterOut(ls, id) ==
    IF ls = <<>> THEN <<>>
    ELSE IF Head(ls).id # id THEN <<Head(ls)>> \o FilterOut(Tail(ls), id)
         ELSE FilterOut(Tail(ls), id)

LineIds == {lines[i].id : i \in 1..Len(lines)}

InitHome ==
    /\ lines = <<>>
    /\ vertices = <<>>
    /\ pixelArea = RInt(0)
    /\ totalArea = RInt(0)
    /\ scale = RInt(100)
    /\ pc = "home"
    /\ InitCanvas

homeVars == <<vertices, pixelArea, pc>>

handleCanvasMouseDown(p) ==
    /\ pc = "home"
    /\ ~isDragging
    /\ isDrawing' = TRUE
    /\ currentLine' = <<[id |-> Len(lines) + 1, startPoint |-> p,
                         length |-> defaultLength]>>
    /\ UNCHANGED <<lines, scale, totalArea, defaultLength, isDragging, dragPoint>>
    /\ UNCHANGED homeVars
    /\ UNCHANGED <<serverVars, downloads>>

handleCanvasMouseMove(p) ==
    /\ pc = "home"
    /\ IF isDrawing /\ currentLine # <<>>
       THEN /\ currentLine' = <<[id |-> currentLine[1].id,
                                 startPoint |-> currentLine[1].startPoint,
                                 endPoint |-> p,
                                 length |-> currentLine[1].length]>>
            /\ lines' = lines
       ELSE /\ currentLine' = currentLine
            /\ IF isDragging /\ dragPoint # <<>>
               THEN LET lineIndex == FindIndex(lines, dragPoint[1].lineId)
                    IN  IF lineIndex = 0 THEN lines' = lines
                        ELSE IF dragPoint[1].isStart
                        THEN lines' = [lines EXCEPT ![lineIndex].startPoint = p]
                        ELSE lines' = [lines EXCEPT ![lineIndex].endPoint = p]
               ELSE lines' = lines
    /\ UNCHANGED <<scale, defaultLength, isDrawing, isDragging, dragPoint>>
    /\ Rerender
    /\ UNCHANGED homeVars
    /\ UNCHANGED <<serverVars, downloads>>

\* Variant: the finished line is put in front of the list ([newLine, ...lines]).
handleCanvasMouseUp_prepend ==
    /\ pc = "home"
    /\ IF /\ isDrawing
          /\ currentLine # <<>>
          /\ "endPoint" \in DOMAIN currentLine[1]
       THEN /\ lines' = <<Line(IdOrNow(currentLine[1].id),
                               currentLine[1].startPoint,
                               currentLine[1].endPoint,
                               LengthOr(currentLine[1].length, defaultLength))>>
                         \o lines
            /\ currentLine' = <<>>
       ELSE /\ lines' = lines
            /\ currentLine' = currentLine
    /\ isDrawing' = FALSE
    /\ isDragging' = FALSE
    /\ dragPoint' = <<>>
    /\ UNCHANGED <<scale, defaultLength>>
    /\ Rerender
    /\ UNCHANGED homeVars
    /\ UNCHANGED <<serverVars, downloads>>

\* also bound to onMouseLeave
handleCanvasMouseUp ==
    /\ pc = "home"
    /\ IF /\ isDrawing
          /\ currentLine # <<>>
          /\ "endPoint" \in DOMAIN currentLine[1]
       THEN /\ lines' = Append(lines,
                             Line(IdOrNow(currentLine[1].id),
                                  currentLine[1].startPoint,
                                  currentLine[1].endPoint,
                                  LengthOr(currentLine[1].length, defaultLength)))
            /\ currentLine' = <<>>
       ELSE /\ lines' = lines
            /\ currentLine' = currentLine
    /\ isDrawing' = FALSE
    /\ isDragging' = FALSE
    /\ dragPoint' = <<>>
    /\ UNCHANGED <<scale, defaultLength>>
    /\ Rerender
    /\ UNCHANGED homeVars
    /\ UNCHANGED <<serverVars, downloads>>

\* mouse down on the start or end handle of a drawn line
handlePointMouseDown(lineId, isStart) ==
    /\ pc = "home"
    /\ lineId \in LineIds
    /\ isDragging' = TRUE
    /\ dragPoint' = <<[lineId |-> lineId, isStart |-> isStart]>>
    /\ UNCHANGED <<lines, scale, totalArea, defaultLength, isDrawing, currentLine>>
    /\ UNCHANGED homeVars
    /\ UNCHANGED <<serverVars, downloads>>

handleUndo ==
    /\ pc = "home"
    /\ lines' = IF Len(lines) > 0 THEN SubSeq(lines, 1, Len(lines) - 1) ELSE lines
    /\ UNCHANGED <<scale, canvasVars>>
    /\ Rerender
    /\ UNCHANGED homeVars
    /\ UNCHANGED <<serverVars, downloads>>

handleClearAll ==
    /\ pc = "home"
    /\ lines' = <<>>
    /\ UNCHANGED <<scale, canvasVars>>
    /\ Rerender
    /\ UNCHANGED homeVars
    /\ UNCHANGED <<serverVars, downloads>>

\* confirmed: the answer to window.confirm, asked when there are lines
handleNewPlot(confirmed) ==
    /\ pc = "home"
    /\ lines' = IF Len(lines) > 0 /\ ~confirmed THEN lines ELSE <<>>
    /\ UNCHANGED <<scale, canvasVars>>
    /\ Rerender
    /\ UNCHANGED homeVars
    /\ UNCHANGED <<serverVars, downloads>>

handleDefaultLengthChange(value) ==
    /\ pc = "home"
    /\ defaultLength' = IF ~isNaN(value) /\ value.num > 0 THEN value ELSE defaultLength
    /\ UNCHANGED <<lines, scale, totalArea, isDrawing, currentLine, isDragging, dragPoint>>
    /\ UNCHANGED homeVars
    /\ UNCHANGED <<serverVars, downloads>>

handleScaleChange(value) ==
    /\ pc = "home"
    /\ scale' = IF ~isNaN(value) /\ value.num > 0 THEN value ELSE scale
    /\ UNCHANGED <<lines, canvasVars>>
    /\ Rerender
    /\ UNCHANGED homeVars
    /\ UNCHANGED <<serverVars, downloads>>

\* Variant: only NaN is rejected (newLength <= 0 passes).
handleLineLengthChange_onlyNaN(lineId, newLength) ==
    /\ pc = "home"
    /\ lineId \in LineIds
    /\ lines' = IF isNaN(newLength) THEN lines
                 ELSE [i \in 1..Len(lines) |->
                          IF lines[i].id = lineId
                          THEN [lines[i] EXCEPT !.length = newLength]
                          ELSE lines[i]]
    /\ UNCHANGED <<scale, canvasVars>>
    /\ Rerender
    /\ UNCHANGED homeVars
    /\ UNCHANGED <<serverVars, downloads>>

handleLineLengthChange(lineId, newLength) ==
    /\ pc = "home"
    /\ lineId \in LineIds
    /\ lines' = IF isNaN(newLength) \/ newLength.num <= 0 THEN lines
                 ELSE [i \in 1..Len(lines) |->
                          IF lines[i].id = lineId
                          THEN [lines[i] EXCEPT !.length = newLength]
                          ELSE lines[i]]
    /\ UNCHANGED <<scale, canvasVars>>
    /\ Rerender
    /\ UNCHANGED homeVars
    /\ UNCHANGED <<serverVars, downloads>>

handleDeleteLine(lineId) ==
    /\ pc = "home"
    /\ lineId \in LineIds
    /\ lines' = FilterOut(lines, lineId)
    /\ UNCHANGED <<scale, canvasVars>>
    /\ Rerender
    /\ UNCHANGED homeVars
    /\ UNCHANGED <<serverVars, downloads>>

\* Every handler, on mouse positions of points and on the parsed inputs given;
\* no new line is started once the drawing holds maxLines lines.
NextHome(points, lengthInputs, defaultInputs, scaleInputs, maxLines) ==
    \/ \E p \in points : Len(lines) < maxLines /\ handleCanvasMouseDown(p)
    \/ \E p \in points : handleCanvasMouseMove(p)
    \/ handleCanvasMouseUp
    \/ \E id \in LineIds, isStart \in BOOLEAN : handlePointMouseDown(id, isStart)
    \/ handleUndo
    \/ handleClearAll
    \/ \E confirmed \in BOOLEAN : handleNewPlot(confirmed)
    \/ \E value \in defaultInputs : handleDefaultLengthChange(value)
    \/ \E value \in scaleInputs : handleScaleChange(value)
    \/ \E id \in LineIds, newLength \in lengthInputs : handleLineLengthChange(id, newLength)
    \/ \E id \in LineIds : handleDeleteLine(id)

\* A drawing session on the corners of a right triangle with sides 30, 40, 50:
\* lines keep the length 10 they are drawn with, the scale is edited.
MaxMeasured == 3
TrianglePoints == {Pt(0, 0), Pt(30, 0), Pt(30, 40)}
SameLengthInputs == {NaN, RInt(0), RInt(10)}
ScaleInputs == {NaN, RInt(0), Rat(5, 2)}

SpecHome ==
    InitHome /\ [][NextHome(TrianglePoints, SameLengthInputs, SameLengthInputs,
                            ScaleInputs, MaxMeasured)]_vars

\* A drawing session on two mouse positions: lengths and the default length
\* are edited, the scale stays.
MaxDrawn == 2
TwoPoints == {Pt(0, 0), Pt(30, 40)}
LengthInputs == {NaN, RInt(0), RInt(-5), RInt(5)}
DefaultInputs == {NaN, RInt(0), RInt(-5), RInt(5)}
SameScaleInputs == {NaN, RInt(100)}

SpecCanvas ==
    InitHome /\ [][NextHome(TwoPoints, LengthInputs, DefaultInputs,
                            SameScaleInputs, MaxDrawn)]_vars

----------------------------------------------------------------------------
(* The server: the routes of registerRoutes on the one MemStorage.  One     *)
(* action is one request handled from its arrival to its response.  A JSON  *)
(* object is a record, a missing key a missing field; a path parameter is   *)
(* the text of the URL.                                                     *)

\* null as a user id (the ids of users are positive)
Null == -1

\* parseInt of a path parameter: <<n>> for a number, <<>> for NaN
DecimalPrefix == [s \in {"1", "2", "3", "4", "9", "1.5"} |->
                    CASE s = "1" -> 1 [] s = "2" -> 2 [] s = "3" -> 3
                      [] s = "4" -> 4 [] s = "9" -> 9 [] s = "1.5" -> 1]
parseInt(s) == IF s \in DOMAIN DecimalPrefix THEN <<DecimalPrefix[s]>> ELSE <<>>

\* lineSchema and measurementsSchema accept m
lineSchemaAccepts(l) ==
    {"id", "startPoint", "endPoint", "length"} \subseteq DOMAIN l
measurementsSchemaAccepts(m) ==
    /\ {"lines", "area"} \subseteq DOMAIN m
    /\ \A i \in 1..Len(m.lines) : lineSchemaAccepts(m.lines[i])

\* insertLandPlotSchema: the columns of land_plots without id; name,
\* measurements, area (an integer) and createdAt are required.
InsertKeys == {"userId", "name", "measurements", "area", "createdAt"}
insertLandPlotSchemaAccepts(body) ==
    /\ {"name", "measurements", "area", "createdAt"} \subseteq DOMAIN body
    /\ body.area.den = 1
\* Variant: the measurements are replaced by what measurementsSchema.parse
\* returns, its known keys.
insertLandPlotSchemaParse_deep(body) ==
    [k \in DOMAIN body \cap InsertKeys |->
        IF k = "measurements"
        THEN [j \in DOMAIN body[k] \cap {"lines", "area"} |-> body[k][j]]
        ELSE body[k]]

\* what parse returns: the known keys of the body
insertLandPlotSchemaParse(body) ==
    [k \in DOMAIN body \cap InsertKeys |-> body[k]]

\* { ...a, ...b }
Spread(a, b) ==
    [k \in DOMAIN a \cup DOMAIN b |-> IF k \in DOMAIN b THEN b[k] ELSE a[k]]

\* Variant: the id is the number of stored plots plus one.
AllocatedId_fromSize == Cardinality(DOMAIN landPlots) + 1

\* const id = this.landPlotCurrentId++ (the value before the increment)
AllocatedId == landPlotCurrentId

\* MemStorage.createLandPlot: the stored plot
NewLandPlot(insertLandPlot, id) ==
    Spread(insertLandPlot,
           [id |-> id,
            userId |-> IF "userId" \in DOMAIN insertLandPlot
                       THEN insertLandPlot.userId ELSE Null])

\* Map.set(id, plot) and Map.delete(id)
MapSet(m, id, plot) ==
    [k \in DOMAIN m \cup {id} |-> IF k = id THEN plot ELSE m[k]]
MapDelete(m, id) == [k \in DOMAIN m \ {id} |-> m[k]]

\* what the server leaves alone: the state of the browser
clientVars == <<lines, vertices, pixelArea, totalArea, scale, pc, canvasVars, downloads>>

\* Variant: the plot is created before its measurements are validated.
PostLandPlot_createFirst(body) ==
    /\ request' = <<[method |-> "POST", body |-> body]>>
    /\ IF insertLandPlotSchemaAccepts(body)
       THEN LET landPlotData == insertLandPlotSchemaParse(body)
                id == AllocatedId
                landPlot == NewLandPlot(landPlotData, id)
            IN  /\ landPlotCurrentId' = landPlotCurrentId + 1
                /\ landPlots' = MapSet(landPlots, id, landPlot)
                /\ response' = IF measurementsSchemaAccepts(body.measurements)
                               THEN <<[status |-> 201, body |-> landPlot]>>
                               ELSE <<[status |-> 400]>>
       ELSE /\ response' = <<[status |-> 400]>>
            /\ UNCHANGED <<landPlots, landPlotCurrentId>>
    /\ UNCHANGED clientVars

\* app.post("/api/land-plots")
PostLandPlot(body) ==
    /\ request' = <<[method |-> "POST", body |-> body]>>
    /\ IF insertLandPlotSchemaAccepts(body)
          /\ measurementsSchemaAccepts(body.measurements)
       THEN LET landPlotData == insertLandPlotSchemaParse(body)
                id == AllocatedId
                landPlot == NewLandPlot(landPlotData, id)
            IN  /\ landPlotCurrentId' = landPlotCurrentId + 1
                /\ landPlots' = MapSet(landPlots, id, landPlot)
                /\ response' = <<[status |-> 201, body |-> landPlot]>>
       ELSE /\ response' = <<[status |-> 400]>>
            /\ UNCHANGED <<landPlots, landPlotCurrentId>>
    /\ UNCHANGED clientVars

\* app.get("/api/land-plots/:id")
GetLandPlot(param) ==
    /\ request' = <<[method |-> "GET", id |-> param]>>
    /\ LET id == parseInt(param)
       IN  response' =
               IF id = <<>> THEN <<[status |-> 400]>>
               ELSE IF id[1] \notin DOMAIN landPlots THEN <<[status |-> 404]>>
               ELSE <<[status |-> 200, body |-> landPlots[id[1]]]>>
    /\ UNCHANGED <<landPlots, landPlotCurrentId>>
    /\ UNCHANGED clientVars

\* app.patch("/api/land-plots/:id")
PatchLandPlot(param, updateData) ==
    /\ request' = <<[method |-> "PATCH", id |-> param, body |-> updateData]>>
    /\ LET id == parseInt(param)
       IN  IF id = <<>>
           THEN /\ response' = <<[status |-> 400]>>
                /\ UNCHANGED <<landPlots, landPlotCurrentId>>
           ELSE IF /\ "measurements" \in DOMAIN updateData
                   /\ ~measurementsSchemaAccepts(updateData.measurements)
           THEN /\ response' = <<[status |-> 400]>>
                /\ UNCHANGED <<landPlots, landPlotCurrentId>>
           ELSE IF id[1] \notin DOMAIN landPlots
           THEN /\ response' = <<[status |-> 404]>>
                /\ UNCHANGED <<landPlots, landPlotCurrentId>>
           ELSE LET updatedLandPlot == Spread(landPlots[id[1]], updateData)
                IN  /\ landPlots' = MapSet(landPlots, id[1], updatedLandPlot)
                    /\ response' = <<[status |-> 200, body |-> updatedLandPlot]>>
                    /\ UNCHANGED landPlotCurrentId
    /\ UNCHANGED clientVars

\* app.delete("/api/land-plots/:id")
DeleteLandPlot(param) ==
    /\ request' = <<[method |-> "DELETE", id |-> param]>>
    /\ LET id == parseInt(param)
       IN  IF id = <<>>
           THEN /\ response' = <<[status |-> 400]>>
                /\ UNCHANGED <<landPlots, landPlotCurrentId>>
           ELSE IF id[1] \notin DOMAIN landPlots
           THEN /\ response' = <<[status |-> 404]>>
                /\ UNCHANGED <<landPlots, landPlotCurrentId>>
           ELSE /\ landPlots' = MapDelete(landPlots, id[1])
                /\ response' = <<[status |-> 204]>>
                /\ UNCHANGED landPlotCurrentId
    /\ UNCHANGED clientVars

\* The most plots the storage creates.
MaxPlots == 2

\* Request bodies: the measurements of the triangle and of an empty drawing,
\* measurements with a key of their own, and bodies the schemas reject.
TriangleLines ==
    <<Line(1, Pt(0, 0), Pt(30, 0), RInt(10)),
      Line(2, Pt(30, 0), Pt(30, 40), RInt(10)),
      Line(3, Pt(30, 40), Pt(0, 0), RInt(10))>>
TriangleMeasurements ==
    [lines |-> TriangleLines, area |-> Rat(600 * 2209, 32400)]
NotedMeasurements ==
    [lines |-> <<>>, area |-> RInt(0), note |-> "survey"]
NoLinesMeasurements == [area |-> RInt(5)]
TriangleBody ==
    [name |-> "Lahan A", measurements |-> TriangleMeasurements,
     area |-> RInt(41), createdAt |-> "2024-01-01", userId |-> 1]
PostBodies ==
    { TriangleBody,
      [name |-> "Lahan B", measurements |-> NotedMeasurements,
       area |-> RInt(0), createdAt |-> "2024-01-02", userId |-> 2],
      [name |-> "Lahan A", measurements |-> TriangleMeasurements,
       area |-> RInt(41), createdAt |-> "2024-01-01"],
      Spread(TriangleBody, [id |-> 9]),
      [measurements |-> TriangleMeasurements,
       area |-> RInt(41), createdAt |-> "2024-01-01", userId |-> 1],
      Spread(TriangleBody, [area |-> Rat(5, 2)]),
      Spread(TriangleBody, [measurements |-> NoLinesMeasurements]) }
PatchBodies ==
    { [name |-> "Lahan C"],
      [measurements |-> NotedMeasurements],
      [measurements |-> NoLinesMeasurements],
      [id |-> 2] }
PathParams == {"1", "2", "3", "9", "1.5", "abc"}

\* Every route, on the bodies and path parameters above; the storage creates
\* no more than MaxPlots plots.
NextServer ==
    \/ \E body \in PostBodies : landPlotCurrentId <= MaxPlots /\ PostLandPlot(body)
    \/ \E param \in PathParams : GetLandPlot(param)
    \/ \E param \in PathParams, updateData \in PatchBodies :
           PatchLandPlot(param, updateData)
    \/ \E param \in PathParams : DeleteLandPlot(param)

SpecServer == InitHome /\ [][NextServer]_vars

----------------------------------------------------------------------------
(* Saving and exporting from the measurement panel *)

\* Math.round: the integer nearest to x, halves rounded up
MathRound(x) == RInt((2 * x.num + x.den) \div (2 * x.den))

\* apiRequest of lib/queryClient: the request is sent with the data as its
\* JSON body and handled by the route.
apiRequest(method, url, data) ==
    /\ method = "POST"
    /\ url = "/api/land-plots"
    /\ PostLandPlot(data)

handleSave_twoLines(date) ==
    /\ pc = "home"
    /\ IF Len(lines) < 2
       THEN UNCHANGED vars
       ELSE LET measurements == [lines |-> lines, area |-> totalArea]
            IN  apiRequest("POST", "/api/land-plots",
                           [name |-> <<"Lahan ", date>>,
                            measurements |-> measurements,
                            area |-> MathRound(totalArea),
                            createdAt |-> date,
                            userId |-> 1])

\* date: new Date().toISOString()
handleSave(date) ==
    /\ pc = "home"
    /\ IF Len(lines) < 3
       THEN UNCHANGED vars
       ELSE LET measurements == [lines |-> lines, area |-> totalArea]
            IN  apiRequest("POST", "/api/land-plots",
                           [name |-> <<"Lahan ", date>>,
                            measurements |-> measurements,
                            area |-> MathRound(totalArea),
                            createdAt |-> date,
                            userId |-> 1])

handleExport ==
    /\ pc = "home"
    /\ downloads' = IF Len(lines) < 3 THEN downloads ELSE downloads + 1
    /\ UNCHANGED <<lines, scale, totalArea, canvasVars, serverVars>>
    /\ UNCHANGED homeVars

\* canvasFound: document.querySelector('canvas') finds an element and the
\* document is made without an exception
handleExportPDF(canvasFound) ==
    /\ pc = "home"
    /\ downloads' = IF Len(lines) < 3 \/ ~canvasFound THEN downloads ELSE downloads + 1
    /\ UNCHANGED <<lines, scale, totalArea, canvasVars, serverVars>>
    /\ UNCHANGED homeVars

\* A session of drawing, undoing, clearing and editing lengths on one mouse
\* position (every line is a point; four of them with matching opposite
\* lengths take the rectangle shortcut), saved and exported a bounded number
\* of times.
MaxOutlined == 4
MaxSaves == 1
MaxDownloads == 1
OnePoint == {Pt(0, 0)}
SaveLengthInputs == {NaN, Rat(1, 4)}
SaveDates == {"2024-01-01T00:00:00.000Z"}

NextSave ==
    \/ \E p \in OnePoint : Len(lines) < MaxOutlined /\ handleCanvasMouseDown(p)
    \/ \E p \in OnePoint : handleCanvasMouseMove(p)
    \/ handleCanvasMouseUp
    \/ handleUndo
    \/ handleClearAll
    \/ \E id \in LineIds, newLength \in SaveLengthInputs : handleLineLengthChange(id, newLength)
    \/ \E date \in SaveDates : landPlotCurrentId <= MaxSaves /\ handleSave(date)
    \/ downloads < MaxDownloads /\ handleExport
    \/ \E canvasFound \in BOOLEAN : downloads < MaxDownloads /\ handleExportPDF(canvasFound)

SpecSave == InitHome /\ [][NextSave]_vars

----------------------------------------------------------------------------
(* Properties of extractVerticesFromLines (checked under SpecGeometry) *)

\* The caller has the vertex sequence that extractVerticesFromLines returned
\* for a non-empty segment sequence.
Extracted == pc = "measured" /\ lines # <<>>

SamePoint(p, q) == p.x = q.x /\ p.y = q.y

\* The first start point differs, in x or in y, from the last end point.
OpenChain ==
    \/ lines[1].startPoint.x # lines[Len(lines)].endPoint.x
    \/ lines[1].startPoint.y # lines[Len(lines)].endPoint.y

Square10 ==
    << Line(1, Pt(0, 0), Pt(10, 0), DefaultLength),
       Line(2, Pt(10, 0), Pt(10, 10), DefaultLength),
       Line(3, Pt(10, 10), Pt(0, 10), DefaultLength),
       Line(4, Pt(0, 10), Pt(0, 0), DefaultLength) >>

\* C1: an empty segment sequence yields an empty vertex sequence; for n >= 1
\* segments the first n+1 vertices are segments[0].start, then segments[0].end,
\* ..., segments[n-1].end in order, whether or not the segments are connected.
C1_StartThenEveryEnd ==
    /\ (pc = "measured" /\ lines = <<>>) => vertices = <<>>
    /\ Extracted =>
          /\ Len(vertices) >= Len(lines) + 1
          /\ SamePoint(vertices[1], lines[1].startPoint)
          /\ \A i \in 1..Len(lines) : SamePoint(vertices[i + 1], lines[i].endPoint)

\* C1 witness: the vertices of a chain whose second line does not start where
\* the first one ends have been extracted.
C1_Witness ==
    /\ pc = "measured"
    /\ Len(lines) = 3
    /\ ~SamePoint(lines[1].endPoint, lines[2].startPoint)
    /\ ~SamePoint(lines[1].startPoint, lines[2].startPoint)
    /\ Len(vertices) >= 4

\* C2: for n >= 3 segments whose first start differs (in x or in y) from the
\* last end, the output has exactly n+2 points and its last point is its first.
C2_OpenChainClosed ==
    (Extracted /\ Len(lines) >= 3 /\ OpenChain) =>
        /\ Len(vertices) = Len(lines) + 2
        /\ SamePoint(vertices[Len(vertices)], vertices[1])

\* C2 witness: a chain of three lines whose ends differ in y only was closed.
C2_Witness ==
    /\ pc = "measured"
    /\ Len(lines) = 3
    /\ lines[1].startPoint.x = lines[3].endPoint.x
    /\ lines[1].startPoint.y # lines[3].endPoint.y
    /\ Len(vertices) = 5

\* C3: for n >= 3 segments whose last end has the coordinates of the first
\* start, nothing is appended and the output has exactly n+1 points; the
\* 4-segment 10 x 10 square yields (0,0),(10,0),(10,10),(0,10),(0,0), whose
\* polygon area is 100.
C3_ClosedChainKept ==
    /\ (Extracted /\ Len(lines) >= 3 /\ ~OpenChain) =>
          Len(vertices) = Len(lines) + 1
    /\ (Extracted /\ lines = Square10) =>
          vertices = <<Pt(0, 0), Pt(10, 0), Pt(10, 10), Pt(0, 10), Pt(0, 0)>>
    /\ (Extracted /\ lines = Square10) => pixelArea = RInt(100)

\* C3 witness: the 10 x 10 square has been extracted and measured.
C3_Witness ==
    /\ pc = "measured"
    /\ lines = Square10
    /\ Len(vertices) = 5
    /\ pixelArea = RInt(100)

\* C4 as claimed: whenever the vertex sequence built from the segments (n+1
\* points) has at least 3 points and its first point differs from its last, a
\* copy of the first point is appended.
C4_ClosureOnVertexCount ==
    (Extracted /\ Len(lines) + 1 >= 3 /\ OpenChain) =>
        /\ Len(vertices) = Len(lines) + 2
        /\ SamePoint(vertices[Len(vertices)], vertices[1])

\* C4 as amended: the closure rule is applied on the segment count: a copy of
\* the first point is appended exactly when there are at least 3 segments (at
\* least 4 built points) and the first point differs from the last; with fewer
\* segments, 2 segments and 3 built points included, nothing is appended.
C4_ClosureOnSegmentCount ==
    Extracted =>
        IF Len(lines) >= 3 /\ OpenChain
        THEN vertices =
                 [i \in 1..(Len(lines) + 2) |->
                     IF i = 1 \/ i = Len(lines) + 2 THEN lines[1].startPoint
                     ELSE lines[i - 1].endPoint]
        ELSE vertices =
                 [i \in 1..(Len(lines) + 1) |->
                     IF i = 1 THEN lines[1].startPoint ELSE lines[i - 1].endPoint]

\* C4 witness: two segments gave three vertices with different ends, and no
\* closing vertex was appended.
C4_Witness ==
    /\ pc = "measured"
    /\ Len(lines) = 2
    /\ OpenChain
    /\ Len(vertices) = 3
    /\ ~SamePoint(vertices[1], vertices[3])

----------------------------------------------------------------------------
(* Properties of calculatePolygonArea (checked under SpecGeometry) *)

\* calculatePolygonArea has returned pixelArea for vertices.
Measured == pc \in {"measured", "area"}

\* The sum over i in 0..k-1 of x_i * y_((i+1) mod n) - x_((i+1) mod n) * y_i.
RECURSIVE CrossSum(_, _)
CrossSum(vs, k) ==
    IF k = 0 THEN 0
    ELSE LET n == Len(vs)
             p == vs[k]
             q == vs[(k % n) + 1]
         IN  CrossSum(vs, k - 1) + (p.x * q.y - q.x * p.y)

Reverse(vs) == [i \in 1..Len(vs) |-> vs[Len(vs) + 1 - i]]

\* vs started k places later, cyclically.
Rotate(vs, k) == [i \in 1..Len(vs) |-> vs[((i - 1 + k) % Len(vs)) + 1]]

Rectangle(w, h) == <<Pt(0, 0), Pt(w, 0), Pt(w, h), Pt(0, h)>>

\* C5: for n >= 3 vertices the area is |sum of the cross products with
\* wraparound| / 2; the rectangle (0,0),(w,0),(w,h),(0,h) has area w*h in
\* either winding order, and the area is never negative.
C5_ShoelaceFormula ==
    Measured =>
        /\ Len(vertices) >= 3 =>
              /\ pixelArea.den > 0
              /\ 2 * pixelArea.num = Abs(CrossSum(vertices, Len(vertices))) * pixelArea.den
        /\ \A w \in AreaCoords, h \in AreaCoords :
              vertices \in {Rectangle(w, h), Reverse(Rectangle(w, h))} =>
                  pixelArea = RInt(w * h)
        /\ pixelArea.num >= 0 /\ pixelArea.den > 0

\* C5 witness: the 20 x 10 rectangle was measured clockwise (its signed sum is
\* negative) and has area 200.
C5_Witness ==
    /\ pc = "area"
    /\ vertices = Reverse(Rectangle(20, 10))
    /\ CrossSum(vertices, 4) < 0
    /\ pixelArea = RInt(200)

\* C6: the area of fewer than 3 vertices (none, one, two) is 0, whatever the
\* coordinates.
C6_FewVerticesZero ==
    (Measured /\ Len(vertices) < 3) => pixelArea = RInt(0)

\* C6 witness: two different points away from the origin were measured.
C6_Witness ==
    /\ pc = "area"
    /\ Len(vertices) = 2
    /\ vertices[1] = Pt(10, 20)
    /\ vertices[2] = Pt(20, 10)

\* C7: for every vertex sequence V handed to calculatePolygonArea, the area of
\* V reversed and the area of every cyclic rotation of V equal the area of V.
C7_ReverseRotateInvariant ==
    pc = "area" =>
        /\ calculatePolygonArea(Reverse(vertices)) = pixelArea
        /\ \A k \in 0..Len(vertices) :
              calculatePolygonArea(Rotate(vertices, k)) = pixelArea

\* C7 witness: a quadrilateral of four different corners with a non-zero area
\* was measured.
C7_Witness ==
    /\ pc = "area"
    /\ Len(vertices) = 4
    /\ Cardinality({vertices[i] : i \in 1..4}) = 4
    /\ Rotate(vertices, 1) # vertices
    /\ Reverse(vertices) # vertices
    /\ pixelArea.num > 0

\* C8: a closing duplicate is harmless: for every vertex sequence V of at
\* least 3 points the area of V followed by a copy of V[0] is the area of V;
\* and for every chain of >= 3 segments the area of the extracted vertices is
\* the area of the same vertices without the trailing closing point.
C8_ClosingDuplicateHarmless ==
    Measured =>
        /\ Len(vertices) >= 3 =>
              calculatePolygonArea(Append(vertices, vertices[1])) = pixelArea
        /\ Len(lines) >= 3 =>
              calculatePolygonArea(SubSeq(vertices, 1, Len(vertices) - 1)) = pixelArea

\* C8 witness: an open chain of three segments was closed by extraction and
\* measured with a non-zero area.
C8_Witness ==
    /\ pc = "measured"
    /\ Len(lines) = 3
    /\ OpenChain
    /\ Len(vertices) = 5
    /\ pixelArea.num > 0

----------------------------------------------------------------------------
(* Properties of scaleAreaToRealWorld (checked under SpecScale) *)

\* |a - b| < 0.1 for two declared lengths.
WithinTenth(a, b) == 10 * Abs(a.num * b.den - b.num * a.den) < a.den * b.den

DeclaredLengths == [i \in 1..Len(lines) |-> lines[i].length]

PixelLengthSquared(l) ==
    (l.endPoint.x - l.startPoint.x) * (l.endPoint.x - l.startPoint.x)
        + (l.endPoint.y - l.startPoint.y) * (l.endPoint.y - l.startPoint.y)

\* C9: with fewer than 3 segments the result is 0, for every pixel area, every
\* segment content and every scale.
C9_FewLinesZero ==
    (pc = "scaled" /\ Len(lines) < 3) => totalArea = RInt(0)

\* C9 witness: two segments of non-zero pixel length and a non-zero pixel area
\* were scaled at scale 100.
C9_Witness ==
    /\ pc = "scaled"
    /\ Len(lines) = 2
    /\ \A i \in 1..2 : PixelLengthSquared(lines[i]) > 0
    /\ pixelArea = RInt(20000)
    /\ scale = RInt(100)
    /\ totalArea = RInt(0)

\* C10: with exactly 4 segments of declared lengths A, B, C, D such that
\* |A-C| < 0.1 and |B-D| < 0.1 the result is A*B, whatever the pixel area, the
\* end points and the scale; lengths 10, 5, 10.05, 4.97 give 50.
C10_RectangleShortcut ==
    pc = "scaled" =>
        /\ ( /\ Len(lines) = 4
             /\ WithinTenth(lines[1].length, lines[3].length)
             /\ WithinTenth(lines[2].length, lines[4].length) ) =>
              totalArea = Rat(lines[1].length.num * lines[2].length.num,
                              lines[1].length.den * lines[2].length.den)
        /\ DeclaredLengths = <<RInt(10), RInt(5), Rat(1005, 100), Rat(497, 100)>> =>
              totalArea = RInt(50)

\* C10 witness: lengths 10, 5, 10.05, 4.97 on segments that enclose nothing (the
\* third has no pixel length) were scaled from pixel area 20000 to 50.
C10_Witness ==
    /\ pc = "scaled"
    /\ DeclaredLengths = <<RInt(10), RInt(5), Rat(1005, 100), Rat(497, 100)>>
    /\ PixelLengthSquared(lines[1]) # PixelLengthSquared(lines[2])
    /\ PixelLengthSquared(lines[3]) = 0
    /\ pixelArea = RInt(20000)
    /\ totalArea = RInt(50)

\* C11: when at least 3 segments are supplied and either their number is not 4
\* or |A - C| >= 0.1 or |B - D| >= 0.1 (a difference of exactly 0.1 included),
\* scaleAreaToRealWorld returns the general-path value pixelArea * (mean ratio)^2.
C11_ShortcutRejected ==
    (/\ pc = "scaled"
     /\ Len(lines) >= 3
     /\ \/ Len(lines) # 4
        \/ ~WithinTenth(lines[1].length, lines[3].length)
        \/ ~WithinTenth(lines[2].length, lines[4].length))
    => totalArea = ratioProjection(pixelArea, lines)

\* Four sides of declared lengths 0.1, 5, 0.2, 5: |A - C| is exactly 0.1, the
\* shortcut would give 0.5 and the general path gives 2500 * 0.02575^2.
C11_Witness ==
    /\ pc = "scaled"
    /\ Len(lines) = 4
    /\ DeclaredLengths = <<Rat(1, 10), RInt(5), Rat(2, 10), RInt(5)>>
    /\ \A i \in 1..4 : PixelLengthSquared(lines[i]) = 10000
    /\ pixelArea = RInt(2500)
    /\ totalArea # RMul(lines[1].length, lines[2].length)
    /\ totalArea = Rat(10609 * 2500, 16000000)

\* The segments of non-zero pixel distance, and the sum of length_i / d_i over
\* a set of them.
Measurable == {i \in 1..Len(lines) : PixelLengthSquared(lines[i]) # 0}

RECURSIVE RatioSum(_)
RatioSum(I) ==
    IF I = {} THEN RInt(0)
    ELSE LET i == CHOOSE j \in I : TRUE
             d == Sqrt(PixelLengthSquared(lines[i]))
         IN  RAdd(RDiv(lines[i].length, RInt(d)), RatioSum(I \ {i}))

ShortcutApplies ==
    /\ Len(lines) = 4
    /\ WithinTenth(lines[1].length, lines[3].length)
    /\ WithinTenth(lines[2].length, lines[4].length)

\* C12: with at least 3 segments, no shortcut and some segment of non-zero
\* pixel distance, scaleAreaToRealWorld returns pixelArea * m * m where m is the
\* sum of length_i / d_i over the segments with d_i # 0 divided by their number.
C12_MeanOverMeasurable ==
    (/\ pc = "scaled"
     /\ Len(lines) >= 3
     /\ ~ShortcutApplies
     /\ Measurable # {})
    => LET m == RDiv(RatioSum(Measurable), RInt(Cardinality(Measurable)))
       IN  totalArea = RMul(RMul(pixelArea, m), m)

\* A zero-length segment and two segments of 100 pixels, all declared 10 m:
\* the mean is taken over the two, 0.1, and 2500 scales to 25.
C12_Witness ==
    /\ pc = "scaled"
    /\ Len(lines) = 3
    /\ PixelLengthSquared(lines[1]) = 0
    /\ PixelLengthSquared(lines[2]) = 10000
    /\ PixelLengthSquared(lines[3]) = 10000
    /\ \A i \in 1..3 : lines[i].length = RInt(10)
    /\ pixelArea = RInt(2500)
    /\ totalArea = RInt(25)

\* C13 as stated: when every supplied segment has identical start and end
\* coordinates, scaleAreaToRealWorld returns 0 for every pixel area.
C13_AllDegenerateZero ==
    (pc = "scaled" /\ Measurable = {}) => totalArea = RInt(0)

\* C13, amended: when every supplied segment has identical start and end
\* coordinates, scaleAreaToRealWorld returns 0 for every pixel area unless the
\* rectangle shortcut applies (exactly 4 segments, both opposite-side
\* differences below 0.1), in which case it returns A * B.
C13_EmptyRatioSetZero ==
    (pc = "scaled" /\ Measurable = {})
    => totalArea = IF ShortcutApplies
                   THEN Rat(lines[1].length.num * lines[2].length.num,
                            lines[1].length.den * lines[2].length.den)
                   ELSE RInt(0)

\* Four zero-length segments declared 10, 5, 10 and 10 m with a pixel area of
\* 20000: no shortcut (|B - D| = 5), no ratio, result 0.
C13_Witness ==
    /\ pc = "scaled"
    /\ Len(lines) = 4
    /\ Measurable = {}
    /\ DeclaredLengths = <<RInt(10), RInt(5), RInt(10), RInt(10)>>
    /\ pixelArea = RInt(20000)
    /\ totalArea = RInt(0)

----------------------------------------------------------------------------
(* Properties of the application (checked under SpecHome and SpecCanvas) *)

\* The triangle (0,0), (30,0), (30,40) drawn as a closed chain of three lines.
TriangleDrawn ==
    /\ Len(lines) = 3
    /\ lines[1].startPoint = Pt(0, 0) /\ lines[1].endPoint = Pt(30, 0)
    /\ lines[2].startPoint = Pt(30, 0) /\ lines[2].endPoint = Pt(30, 40)
    /\ lines[3].startPoint = Pt(30, 40) /\ lines[3].endPoint = Pt(0, 0)

\* Its area with every line declared 10 m: 600 * ((1/3 + 1/4 + 1/5) / 3)^2.
TriangleArea == Rat(600 * 2209, 32400)

PositiveScales == {RInt(1), Rat(5, 2), RInt(50), RInt(100)}

\* The results of scaleAreaToRealWorld over the positive scales are one value.
ScaleIndependent ==
    \A pa \in PixelAreas \cup {calculatePolygonArea(extractVerticesFromLines(lines))} :
        Cardinality({scaleAreaToRealWorld(pa, lines, s) : s \in PositiveScales}) = 1

\* C14: on the line list of every state of the application and for every pixel
\* area, scaleAreaToRealWorld gives the same result for any two positive
\* scales, and a step that leaves the line list alone (a change of the scale
\* in particular) leaves the displayed total area alone.
C14_ScaleIgnored ==
    /\ []ScaleIndependent
    /\ [][lines' = lines => totalArea' = totalArea]_vars

\* The triangle is drawn and the scale was changed from 100 to 2.5: the area
\* is still the one of the triangle.
C14_Witness ==
    /\ pc = "home"
    /\ TriangleDrawn
    /\ scale = Rat(5, 2)
    /\ totalArea = TriangleArea

Positive(v) == ~isNaN(v) /\ v.num > 0

\* C15: in every state of a session of draws, drags, length edits,
\* default-length edits, deletes, undos and clears (NaN, 0 and negative inputs
\* among the edits), every line of the list has a length > 0, and so have the
\* default length and the line being drawn.
C15_LengthsPositive ==
    pc = "home" =>
        /\ \A i \in 1..Len(lines) : Positive(lines[i].length)
        /\ Positive(defaultLength)
        /\ currentLine # <<>> => Positive(currentLine[1].length)

\* Two lines, the first drawn with the default 10, the second with the edited
\* default 5, the first then edited to 5 as well.
C15_Witness ==
    /\ pc = "home"
    /\ Len(lines) = 2
    /\ lines[1].id = 1 /\ lines[2].id = 2
    /\ lines[1].length = RInt(5)
    /\ lines[2].length = RInt(5)
    /\ defaultLength = RInt(5)
    /\ lines[1].startPoint # lines[1].endPoint

\* C16: after any sequence of draws, deletes by id, undos and clears no two
\* lines of the list have the same id.
C16_IdsUnique ==
    pc = "home" =>
        \A i \in 1..Len(lines), j \in 1..Len(lines) :
            i # j => lines[i].id # lines[j].id

\* C17: in every state of a session of draws, drags, length edits, deletes,
\* undos, clears and scale changes the total area is a number >= 0, and it is
\* 0 whenever the list has fewer than 3 lines.
C17_AreaNonNegative ==
    pc = "home" =>
        /\ ~isNaN(totalArea)
        /\ totalArea.den > 0
        /\ totalArea.num >= 0
        /\ Len(lines) < 3 => totalArea = RInt(0)

\* The triangle drawn clockwise, (0,0) -> (30,40) -> (30,0) -> (0,0): the
\* shoelace sum is negative and the total area is the positive triangle area.
C17_Witness ==
    /\ pc = "home"
    /\ Len(lines) = 3
    /\ lines[1].startPoint = Pt(0, 0) /\ lines[1].endPoint = Pt(30, 40)
    /\ lines[2].startPoint = Pt(30, 40) /\ lines[2].endPoint = Pt(30, 0)
    /\ lines[3].startPoint = Pt(30, 0) /\ lines[3].endPoint = Pt(0, 0)
    /\ ShoelaceLoop(extractVerticesFromLines(lines), 0, 0) < 0
    /\ totalArea = TriangleArea

\* C18: in every state of the application the displayed total area equals
\* scaleAreaToRealWorld(calculatePolygonArea(extractVerticesFromLines(lines)),
\* lines, scale) on the line list and scale of that state.
C18_AreaFollowsLines ==
    pc = "home" =>
        totalArea = scaleAreaToRealWorld(
                        calculatePolygonArea(extractVerticesFromLines(lines)),
                        lines, scale)

\* The end of the third line is held by a drag and closes the triangle: the
\* area shown is the area of the triangle.
C18_Witness ==
    /\ pc = "home"
    /\ TriangleDrawn
    /\ isDragging
    /\ dragPoint = <<[lineId |-> 3, isStart |-> FALSE]>>
    /\ scale = RInt(100)
    /\ totalArea = TriangleArea
    /\ totalArea # RInt(0)

\* a is b with some elements left out, the others in the order of b
RECURSIVE IsSubsequence(_, _)
IsSubsequence(a, b) ==
    IF a = <<>> THEN TRUE
    ELSE IF b = <<>> THEN FALSE
    ELSE IF Head(a) = Head(b) THEN IsSubsequence(Tail(a), Tail(b))
    ELSE IsSubsequence(a, Tail(b))

C20_ScaleInteger ==
    pc = "home" => (~isNaN(scale) /\ scale.den = 1 /\ scale.num > 0)

----------------------------------------------------------------------------
(* Properties of the server (checked under SpecServer) *)

\* The request a step handles, the response it gives and the id it names.
Handled == request'[1]
Answer == response'[1]
NamedId == IF "id" \in DOMAIN Handled THEN parseInt(Handled.id) ELSE <<>>

BundleKeys == {"name", "measurements", "area", "createdAt", "userId"}

\* C21: a POST answered 201 stores and returns a plot whose name,
\* measurements, area, createdAt and userId are those of the body; a stored
\* plot changes only by a PATCH or DELETE of its id; and a GET answered 200
\* returns the stored plot.
C21_StoredVerbatim ==
    [][ /\ (Handled.method = "POST" /\ Answer.status = 201) =>
              /\ \A k \in BundleKeys \cap DOMAIN Handled.body :
                     Answer.body[k] = Handled.body[k]
              /\ Answer.body.id \in DOMAIN landPlots'
              /\ landPlots'[Answer.body.id] = Answer.body
        /\ \A id \in DOMAIN landPlots :
              (Handled.method \in {"PATCH", "DELETE"} /\ NamedId = <<id>>)
              \/ (id \in DOMAIN landPlots' /\ landPlots'[id] = landPlots[id])
        /\ (Handled.method = "GET" /\ Answer.status = 200) =>
              Answer.body = landPlots[NamedId[1]] ]_vars

\* Plot 1 was created from the triangle body, plot 2 was created and patched
\* since, and GET /api/land-plots/1 returns the triangle body with id 1.
C21_Witness ==
    /\ request = <<[method |-> "GET", id |-> "1"]>>
    /\ response = <<[status |-> 200, body |-> Spread(TriangleBody, [id |-> 1])]>>
    /\ 2 \in DOMAIN landPlots
    /\ landPlots[2].name = "Lahan C"
    /\ landPlots[2].measurements = NotedMeasurements

\* C22: after any sequence of creates, updates and deletes every plot of the
\* map is stored under the key equal to its id.
C22_KeyIsId ==
    \A k \in DOMAIN landPlots : landPlots[k].id = k

\* C23: a request answered 400 or 404 (a POST or PATCH that fails
\* validation, a PATCH or DELETE of an id that does not exist or is no
\* number) changes neither the land-plot map nor landPlotCurrentId.
C23_ErrorsChangeNothing ==
    [][ Answer.status \in {400, 404} =>
            /\ landPlots' = landPlots
            /\ landPlotCurrentId' = landPlotCurrentId ]_vars

\* One plot is stored and a POST whose measurements have no lines was just
\* answered 400: the map still holds that one plot and the next id is 2.
C23_Witness ==
    /\ request = <<[method |-> "POST",
                    body |-> Spread(TriangleBody, [measurements |-> NoLinesMeasurements])]>>
    /\ response = <<[status |-> 400]>>
    /\ DOMAIN landPlots = {1}
    /\ landPlotCurrentId = 2

\* C24: landPlotCurrentId starts at 1 and never decreases; a create returns
\* the current value and raises it by exactly one, no other request changes
\* it, and every key of the map is below it: the ids returned by create are
\* 1, 2, 3, ... and the id of a deleted plot is never assigned again.
C24_IdsNeverReused ==
    /\ [](landPlotCurrentId >= 1 /\ \A k \in DOMAIN landPlots : k < landPlotCurrentId)
    /\ [][ IF Handled.method = "POST" /\ Answer.status = 201
           THEN /\ Answer.body.id = landPlotCurrentId
                /\ landPlotCurrentId' = landPlotCurrentId + 1
           ELSE landPlotCurrentId' = landPlotCurrentId ]_vars

\* Plot 1 was created and deleted, and the create after that returned id 2.
C24_Witness ==
    /\ request # <<>> /\ request[1].method = "POST"
    /\ response # <<>> /\ response[1].status = 201
    /\ response[1].body.id = 2
    /\ DOMAIN landPlots = {2}
    /\ landPlotCurrentId = 3

----------------------------------------------------------------------------
(* Further properties of the application *)

\* A step that rewrites lengths and nothing else: a length edit that took effect.
LengthEdited ==
    /\ lines' # lines
    /\ Len(lines') = Len(lines)
    /\ \A i \in 1..Len(lines) :
          /\ lines'[i].id = lines[i].id
          /\ lines'[i].startPoint = lines[i].startPoint
          /\ lines'[i].endPoint = lines[i].endPoint

\* C25: a length edit changes the length of exactly one entry of the list and
\* leaves the number of lines, their order and every other line alone.
C25_OnlyThatLine ==
    [][ LengthEdited =>
            Cardinality({i \in 1..Len(lines) : lines'[i].length # lines[i].length}) = 1 ]_vars

\* C26: in every state reached by canvas mouse-down, handle mouse-down,
\* mouse-move, mouse-up and mouse-leave events isDrawing and isDragging are
\* never both true, and whenever neither a drawing nor a drag is under way
\* dragPoint is null.
C26_ModesExclusive ==
    pc = "home" =>
        /\ ~(isDrawing /\ isDragging)
        /\ (~isDrawing /\ ~isDragging) => dragPoint = <<>>

\* a is the integer nearest to x, the upper one when x lies half way
NearestInteger(a, x) ==
    /\ a.den = 1
    /\ 2 * a.num * x.den - x.den <= 2 * x.num
    /\ 2 * x.num < 2 * a.num * x.den + x.den

Issued == request' # request \/ landPlots' # landPlots

\* C27: with fewer than 3 lines no request is issued and no file is
\* produced; a request issued by handleSave carries the current lines and
\* totalArea, and every plot stored through it has at least 3 lines in
\* measurements.lines and as area the integer nearest to measurements.area.
C27_ClosedShapeOnly ==
    /\ [](\A id \in DOMAIN landPlots :
            /\ Len(landPlots[id].measurements.lines) >= 3
            /\ NearestInteger(landPlots[id].area, landPlots[id].measurements.area))
    /\ [][ (Issued \/ downloads' # downloads) => Len(lines) >= 3 ]_vars
    /\ [][ Issued =>
              /\ Handled.method = "POST"
              /\ Handled.body.measurements = [lines |-> lines, area |-> totalArea]
              /\ Answer.status = 201
              /\ landPlots'[Answer.body.id] = Answer.body
              /\ Answer.body.measurements = Handled.body.measurements ]_vars

\* Four lines on one point, lengths 10, 0.25, 10, 0.25: the shortcut gives
\* 2.5 and the plot is stored with area 3; a file was exported as well.
C27_Witness ==
    /\ downloads = 1
    /\ \E id \in DOMAIN landPlots :
          /\ Len(landPlots[id].measurements.lines) = 4
          /\ landPlots[id].measurements.area = Rat(5, 2)
          /\ landPlots[id].area = RInt(3)
====
